---- MODULE Spec2Model ----
(***************************************************************************)
(* Game lifecycle and membership coordinator of vulture-lib (game.ts).     *)
(*                                                                         *)
(* The persistent state is the two MongoDB collections (games, players)   *)
(* and the EventBridge schedules.  Every exported function is an async    *)
(* function: each awaited store or scheduler call is one atomic step, and  *)
(* the steps of concurrently running requests interleave freely.  The     *)
(* synchronous code between two awaits belongs to the step of the await    *)
(* that precedes it (asserts on a result) or follows it (argument checks). *)
(*                                                                         *)
(* joinGame and deleteGame open a session and call withTransaction, but   *)
(* none of the collection calls inside the callback is given the session  *)
(* ({ session } is never passed), so the driver runs each of them on its   *)
(* own implicit session, outside the transaction: every insertOne,         *)
(* updateOne, deleteOne and deleteMany commits on its own.  The            *)
(* transaction itself is empty; when the callback throws, withTransaction  *)
(* aborts the (empty) transaction and rethrows.                            *)
(***************************************************************************)
EXTENDS Integers, FiniteSets, Sequences, Bags, TLC

\* ------------------------------------------------------------------ bounds
\* How many requests can be in flight at the same time.
MaxReqs == 2
\* How many requests are issued in one behaviour.
MaxOps == 4

\* ------------------------------------------------------- program constants
\* The caps and the admin codes that game.ts imports from constants.ts, with
\* the caps scaled down.
MAX_GAMES == 2
MAX_ADMINS == 1
ADMIN_CODES == {"secret"}

\* ------------------------------------------------------------------ inputs
Users == {"alice", "bob", "carol"}
\* Users who issue createGame
Hosts == {"alice"}
\* ObjectIds of games: every request may create one
GameIds == 1..MaxOps
\* Values of Date.now() (milliseconds)
Times == {5000}
\* Admin codes a caller may supply; NoCode is an absent code.
NoCode == "none"
Codes == {NoCode, "secret", "wrong"}
\* The scheduler arguments startGame is called with: both gameFunctionArn and
\* stopGameEvent, or one of them missing.
SchedArgs == {"both", "noArn", "noEvent"}
\* The (user, role, code) triples joinGame is called with; a caller who joins
\* as player supplies no code.
JoinInputs ==
    { [user |-> u, role |-> "player", code |-> NoCode] : u \in Users }
    \cup { [user |-> "bob", role |-> "admin", code |-> c] : c \in Codes }
    \cup { [user |-> "carol", role |-> "admin", code |-> "secret"] }

\* GameSettings as supplied by the caller of createGame.  name, ordered and
\* joinMidGame are never read by game.ts and are left out.
MkSettings(min, max, dur, req) ==
    [minPlayers |-> min, maxPlayers |-> max, duration |-> dur,
     startTime |-> 0, endTime |-> 0, numRequiredTasks |-> req]

\* A task as the caller supplies it: its _id is assigned by createGame.
NoOid == <<0, 0>>
MkTask(body) == [_id |-> NoOid, body |-> body]

\* The (settings, tasks) pairs createGame is called with.
CreateInputs ==
    { [settings |-> MkSettings(0, 1, 0, 0), tasks |-> <<MkTask("t1")>>],
      [settings |-> MkSettings(1, 1, 2, 1), tasks |-> <<>>],
      [settings |-> MkSettings(2, 2, 0, 1), tasks |-> <<>>] }

\* ------------------------------------------------------------------- state
VARIABLES
    games,      \* games collection: GameId -> document or NoGame
    players,    \* players collection: bag of Player documents
    timers,     \* EventBridge schedules: set of [name, at, cred]
    nextId,     \* next ObjectId of the games collection
    issued,     \* game-scoped credentials handed to callers so far
    req,        \* the requests in flight: a bag of request records
    last,       \* the request that finished last, as its caller saw it
    nops        \* requests issued so far

vars == <<games, players, timers, nextId, issued, req, last, nops>>

NoGame == [state |-> "absent"]
NoGameId == 0

\* UserToken: a bare token has no gameId and no role.
Token(u, g, role) == [username |-> u, gameId |-> g, role |-> role]
BareToken(u) == Token(u, NoGameId, "none")

\* A request.  game is the document the request read with findOne,
\* now the value of Date.now() it took, ret what it returned, err the
\* message of the assertion or exception it failed with.
Idle ==
    [op |-> "none", pc |-> "idle", token |-> BareToken("alice"), gameId |-> NoGameId,
     role |-> "none", code |-> NoCode, input |-> [settings |-> MkSettings(0, 0, 0, 0), tasks |-> <<>>],
     game |-> NoGame, now |-> 0, fromSchedule |-> FALSE, sched |-> "both",
     session |-> "none", err |-> "", ret |-> [kind |-> "none"]]

\* What the caller of a finished request sees of it: its arguments, and the
\* value it returned or the error it threw
Outcome(rec, pc, msg) ==
    [rec EXCEPT !.pc = pc, !.err = msg, !.input = Idle.input, !.game = NoGame,
                !.now = 0]

\* The request r goes on as rec.  A request that is just being issued is not
\* in flight yet: r is then Idle.
Continue(r, rec) ==
    /\ req' = (req (-) SetToBag({r})) (+) SetToBag({rec})
    /\ UNCHANGED last

\* The request r returns / throws
Return(r, rec) ==
    /\ req' = req (-) SetToBag({r})
    /\ last' = Outcome(rec, "done", "")

Throw(r, rec, msg) ==
    /\ req' = req (-) SetToBag({r})
    /\ last' = Outcome(rec, "failed", msg)

Exists(g) == g \in GameIds /\ games[g] # NoGame

NumGames == Cardinality({ g \in GameIds : games[g] # NoGame })

\* A new request is issued
Begin ==
    /\ BagCardinality(req) < MaxReqs
    /\ nops < MaxOps
    /\ nops' = nops + 1

Init ==
    /\ games = [g \in GameIds |-> NoGame]
    /\ players = EmptyBag
    /\ timers = {}
    /\ nextId = 1
    /\ issued = {}
    /\ req = EmptyBag
    /\ last = Idle
    /\ nops = 0

\* ------------------------------------------------------------- credentials
\* upgradeCredentials: keeps userid/username, sets gameId and role.  The
\* access and the refresh token carry the same claims.
upgradeCredentials(token, gameId, role) == Token(token.username, gameId, role)

\* verifyToken (auth.ts): the error it fails with, "" when it passes.
verifyToken(token, gameId, roles) ==
    IF token.gameId # gameId \/ token.role \notin roles THEN "Forbidden" ELSE ""

\* ---------------------------------------------------------------- createGame
\* Variant: the tasks keep the ids they come with
AssignTaskIds_keepIds(tasks, oid) == tasks

\* Task ids: tasks.forEach(t => t._id = new ObjectId()).  The ids are fresh;
\* they are named after the game's own ObjectId.
AssignTaskIds(tasks, oid) ==
    [i \in 1..Len(tasks) |-> [tasks[i] EXCEPT !._id = <<oid, i>>]]

\* settings.endTime = 0; if(settings.duration) endTime = startTime + duration
CreateSettings(settings) ==
    [settings EXCEPT !.endTime =
        IF settings.duration # 0 THEN settings.startTime + settings.duration ELSE 0]

\* Variant: the threshold is taken as "at most one player missing"
InitialState_offByOne(settings) == IF settings.minPlayers <= 1 THEN "ready" ELSE "not ready"

InitialState(settings) == IF settings.minPlayers = 0 THEN "ready" ELSE "not ready"

NewGame(username, settings, tasks) ==
    [tasks |-> tasks, settings |-> settings, state |-> InitialState(settings),
     players |-> {}, admins |-> {}, host |-> username]

\* getGameColl().find().toArray() and the cap assertion
CreateFind(r, rec) ==
    IF NumGames < MAX_GAMES THEN Continue(r, [rec EXCEPT !.pc = "c_insert"])
    ELSE Throw(r, rec, "Max games reached")

\* createGame as restartGame calls it
createGame_find ==
    \E r \in BagToSet(req) :
        /\ r.pc = "c_find"
        /\ CreateFind(r, r)
        /\ UNCHANGED <<games, players, timers, nextId, issued, nops>>

createGame ==
    \E u \in Hosts, inp \in CreateInputs :
        /\ Begin
        /\ CreateFind(Idle, [Idle EXCEPT !.op = "createGame", !.token = BareToken(u),
                                      !.input = inp])
        /\ UNCHANGED <<games, players, timers, nextId, issued>>

\* insertOne of the game document, then upgradeCredentials(..., "host")
createGame_insert ==
    \E r \in BagToSet(req) :
        /\ r.pc = "c_insert"
        /\ LET rec == r
               gid == nextId
               tasks == AssignTaskIds(rec.input.tasks, gid)
               creds == upgradeCredentials(rec.token, gid, "host")
           IN /\ games' = [games EXCEPT ![gid] =
                     NewGame(rec.token.username, CreateSettings(rec.input.settings), tasks)]
              /\ nextId' = nextId + 1
              /\ issued' = issued \cup {creds}
              /\ Return(r, [rec EXCEPT !.ret = [kind |-> "created", creds |-> creds, gameid |-> gid,
                                                taskids |-> [i \in 1..Len(tasks) |-> tasks[i]._id]]])
        /\ UNCHANGED <<players, timers, nops>>

\* ------------------------------------------------------------ store helpers
\* updateOne({_id: g}, update): modifiedCount is 1 exactly when the document
\* exists and the update changes it.
ModifiedCount(g, doc) == IF Exists(g) /\ doc # games[g] THEN 1 ELSE 0

\* deleteOne({_id: g}): deletedCount
DeletedCount(g) == IF Exists(g) THEN 1 ELSE 0

\* A Player document (its own _id is not modelled: the collection is a bag)
NewPlayer(gameId, username, game) ==
    [gameId |-> gameId, username |-> username, points |-> 0,
     done |-> (game.settings.numRequiredTasks = 0)]

\* ------------------------------------------------------------------ joinGame
\* The assertions of joinGame up to the start of the session: the message of
\* the first one that fails, "" when all pass.
\* Variant: the player capacity assertion admits one player too many
JoinCheck_capOffByOne(username, role, code, game) ==
    IF role = "admin" /\ (code = NoCode \/ code \notin ADMIN_CODES) THEN "Invalid admin creds"
    ELSE IF game = NoGame THEN "Invalid game ID"
    ELSE IF username = game.host \/ username \in game.players \/ username \in game.admins
        THEN "User already in game"
    ELSE IF role = "player" /\ ~(Cardinality(game.players) <= game.settings.maxPlayers)
        THEN "Maximum player capacity reached for this game"
    ELSE IF role = "admin" /\ ~(Cardinality(game.admins) < MAX_ADMINS)
        THEN "Maximum admin capacity reached for this game"
    ELSE IF role # "admin" /\ game.state = "ended"
        THEN "This game has already ended; unable to join"
    ELSE ""

\* Variant: any supplied code is accepted for the admin role
JoinCheck_anyCode(username, role, code, game) ==
    IF role = "admin" /\ code = NoCode THEN "Invalid admin creds"
    ELSE IF game = NoGame THEN "Invalid game ID"
    ELSE IF username = game.host \/ username \in game.players \/ username \in game.admins
        THEN "User already in game"
    ELSE IF role = "player" /\ ~(Cardinality(game.players) < game.settings.maxPlayers)
        THEN "Maximum player capacity reached for this game"
    ELSE IF role = "admin" /\ ~(Cardinality(game.admins) < MAX_ADMINS)
        THEN "Maximum admin capacity reached for this game"
    ELSE IF role # "admin" /\ game.state = "ended"
        THEN "This game has already ended; unable to join"
    ELSE ""

JoinCheck(username, role, code, game) ==
    IF role = "admin" /\ (code = NoCode \/ code \notin ADMIN_CODES) THEN "Invalid admin creds"
    ELSE IF game = NoGame THEN "Invalid game ID"
    ELSE IF username = game.host \/ username \in game.players \/ username \in game.admins
        THEN "User already in game"
    ELSE IF role = "player" /\ ~(Cardinality(game.players) < game.settings.maxPlayers)
        THEN "Maximum player capacity reached for this game"
    ELSE IF role = "admin" /\ ~(Cardinality(game.admins) < MAX_ADMINS)
        THEN "Maximum admin capacity reached for this game"
    ELSE IF role # "admin" /\ game.state = "ended"
        THEN "This game has already ended; unable to join"
    ELSE ""

\* The update document of joinGame, applied to the current document doc.
\* game is the document read before the session started.
JoinSetsReady(role, game) ==
    /\ role # "admin"
    /\ game.state = "not ready"
    /\ Cardinality(game.players) = game.settings.minPlayers - 1

JoinUpdate(doc, username, role, game) ==
    LET added == IF role = "admin"
                 THEN [doc EXCEPT !.admins = @ \cup {username}]
                 ELSE [doc EXCEPT !.players = @ \cup {username}]
    IN IF JoinSetsReady(role, game) THEN [added EXCEPT !.state = "ready"] ELSE added

\* admin-code assertion, findOne, membership/capacity/state assertions,
\* startSession
joinGame ==
    \E inp \in JoinInputs, g \in GameIds :
        /\ Begin
        /\ g < nextId
        /\ LET role == inp.role
               rec == [Idle EXCEPT !.op = "joinGame", !.token = BareToken(inp.user),
                                   !.gameId = g, !.role = role, !.code = inp.code,
                                   !.game = games[g]]
               msg == JoinCheck(inp.user, role, inp.code, games[g])
           IN IF msg # "" THEN Throw(Idle, rec, msg)
              ELSE Continue(Idle, [rec EXCEPT !.session = "open",
                                  !.pc = IF role = "admin" THEN "j_update" ELSE "j_insert"])
        /\ UNCHANGED <<games, players, timers, nextId, issued>>

\* getPlayerColl().insertOne(...)
joinGame_insertPlayer ==
    \E r \in BagToSet(req) :
        /\ r.pc = "j_insert"
        /\ players' = players (+) SetToBag({NewPlayer(r.gameId, r.token.username, r.game)})
        /\ Continue(r, [r EXCEPT !.pc = "j_update"])
        /\ UNCHANGED <<games, timers, nextId, issued, nops>>

\* getGameColl().updateOne({_id: gameId}, update), the modifiedCount
\* assertion, session.endSession() and upgradeCredentials
joinGame_update ==
    \E r \in BagToSet(req) :
        /\ r.pc = "j_update"
        /\ LET rec == r
               g == rec.gameId
               doc == IF Exists(g) THEN JoinUpdate(games[g], rec.token.username, rec.role, rec.game)
                      ELSE NoGame
               creds == upgradeCredentials(rec.token, g, rec.role)
           IN IF ModifiedCount(g, doc) = 1
              THEN /\ games' = [games EXCEPT ![g] = doc]
                   /\ issued' = issued \cup {creds}
                   /\ Return(r, [rec EXCEPT !.session = "ended",
                                            !.ret = [kind |-> "creds", creds |-> creds]])
              ELSE /\ Throw(r, rec, "Operation unsuccessful")
                   /\ UNCHANGED <<games, issued>>
        /\ UNCHANGED <<players, timers, nextId, nops>>

\* ----------------------------------------------------------------- leaveGame
\* Tokens a caller can present where a game-scoped one is required: those
\* issued so far, and a bare one
Tokens == issued \cup {BareToken("bob")}

\* verifyToken, then updateOne with $pull on players
leaveGame ==
    \E tok \in Tokens, g \in GameIds :
        /\ Begin
        /\ g < nextId
        /\ LET rec == [Idle EXCEPT !.op = "leaveGame", !.token = tok, !.gameId = g]
               auth == verifyToken(tok, g, {"player", "admin"})
               doc == IF Exists(g) THEN [games[g] EXCEPT !.players = @ \ {tok.username}]
                      ELSE NoGame
           IN IF auth # ""
              THEN Throw(Idle, rec, auth) /\ UNCHANGED games
              ELSE IF ModifiedCount(g, doc) = 1
              THEN games' = [games EXCEPT ![g] = doc] /\ Return(Idle, rec)
              ELSE Throw(Idle, rec, "No player removed") /\ UNCHANGED games
        /\ UNCHANGED <<players, timers, nextId, issued>>

\* ------------------------------------------------------------------- getGame
\* Variant: players may manage the game as well
Managers_withPlayer == {"host", "admin", "player"}

\* The roles that the managing operations pass to verifyToken
Managers == {"host", "admin"}

\* verifyToken, findOne and the assertion on the result; the document is
\* returned as it is
getGame ==
    \E tok \in Tokens, g \in GameIds :
        /\ Begin
        /\ g < nextId
        /\ LET rec == [Idle EXCEPT !.op = "getGame", !.token = tok, !.gameId = g]
               auth == verifyToken(tok, g, Managers)
           IN IF auth # "" THEN Throw(Idle, rec, auth)
              ELSE IF games[g] = NoGame THEN Throw(Idle, rec, "Invalid game ID")
              ELSE Return(Idle, [rec EXCEPT !.ret = [kind |-> "game", game |-> games[g]]])
        /\ UNCHANGED <<games, players, timers, nextId, issued>>

\* ----------------------------------------------------------------- startGame

\* Variant: the duration is added as milliseconds
EndTimeOf_noScaling(currentTime, duration) ==
    IF duration = 0 THEN 0 ELSE currentTime + duration

EndTimeOf(currentTime, duration) ==
    IF duration = 0 THEN 0 ELSE currentTime + duration * 1000

StartUpdate(doc, currentTime, endTime) ==
    [doc EXCEPT !.state = "running", !.settings.startTime = currentTime,
                !.settings.endTime = endTime]

\* The schedule end-game-<gameId>; cred is the token inside stopGameEvent
Schedule(g, endTime, tok) == [name |-> g, at |-> endTime, cred |-> tok]

HasSchedule(g) == \E t \in timers : t.name = g

\* verifyToken, findOne and the state assertion: the message of the first
\* check that fails, "" when all pass
StartCheck(tok, g) ==
    IF verifyToken(tok, g, Managers) # "" THEN verifyToken(tok, g, Managers)
    ELSE IF games[g] = NoGame THEN "Invalid game ID"
    ELSE IF games[g].state # "ready" THEN "Invalid game state"
    ELSE ""

startGame ==
    \E tok \in Tokens, g \in GameIds :
        /\ Begin
        /\ g < nextId
        /\ LET rec == [Idle EXCEPT !.op = "startGame", !.token = tok, !.gameId = g,
                                   !.game = games[g]]
               msg == StartCheck(tok, g)
           IN IF msg # "" THEN Throw(Idle, rec, msg)
              ELSE Continue(Idle, [rec EXCEPT !.pc = "s_update"])
        /\ UNCHANGED <<games, players, timers, nextId, issued>>

\* Date.now(), updateOne, the modifiedCount assertion and, for a timed game,
\* the assertions on the scheduler arguments.  The arguments are not looked
\* at before this step, so they are drawn here.
startGame_update ==
    \E r \in BagToSet(req) :
        /\ r.pc = "s_update"
        /\ \E currentTime \in Times, sa \in SchedArgs :
            LET rec == [r EXCEPT !.now = currentTime, !.sched = sa]
                g == rec.gameId
                endTime == EndTimeOf(currentTime, rec.game.settings.duration)
                doc == IF Exists(g) THEN StartUpdate(games[g], currentTime, endTime) ELSE NoGame
                ret == [rec EXCEPT !.ret = [kind |-> "times", startTime |-> currentTime,
                                            endTime |-> endTime]]
            IN IF ModifiedCount(g, doc) # 1
               THEN Throw(r, rec, "Failed to start game") /\ UNCHANGED games
               ELSE /\ games' = [games EXCEPT ![g] = doc]
                    /\ IF rec.game.settings.duration > 0
                       THEN IF rec.sched = "noArn"
                            THEN Throw(r, rec, "gameFunctionArn must be specified")
                            ELSE IF rec.sched = "noEvent"
                            THEN Throw(r, rec, "stopGameEvent must be specified")
                            ELSE Continue(r, [ret EXCEPT !.pc = "s_schedule"])
                       ELSE Return(r, ret)
        /\ UNCHANGED <<players, timers, nextId, issued, nops>>

\* Variant: a failure of the CreateScheduleCommand is swallowed
startGame_schedule_swallows ==
    \E r \in BagToSet(req) :
        /\ r.pc = "s_schedule"
        /\ LET g == r.gameId
           IN \/ /\ ~HasSchedule(g)
                 /\ timers' = timers \cup {Schedule(g, r.ret.endTime, r.token)}
              \/ UNCHANGED timers
        /\ Return(r, r)
        /\ UNCHANGED <<games, players, nextId, issued, nops>>

\* schedulerClient.send(CreateScheduleCommand): the schedule is created, or
\* the call throws (a schedule of that name exists, or the service fails)
startGame_schedule ==
    \E r \in BagToSet(req) :
        /\ r.pc = "s_schedule"
        /\ LET rec == r
               g == rec.gameId
           IN \/ /\ ~HasSchedule(g)
                 /\ timers' = timers \cup {Schedule(g, rec.ret.endTime, rec.token)}
                 /\ Return(r, rec)
              \/ /\ UNCHANGED timers
                 /\ Throw(r, rec, IF HasSchedule(g) THEN "ConflictException" ELSE "SchedulerError")
        /\ UNCHANGED <<games, players, nextId, issued, nops>>

\* ------------------------------------------------------------------ stopGame
StopUpdate(doc, currentTime) ==
    [doc EXCEPT !.state = "ended", !.settings.endTime = currentTime]

\* verifyToken, findOne and the state assertion
StopCheck(tok, g) ==
    IF verifyToken(tok, g, Managers) # "" THEN verifyToken(tok, g, Managers)
    ELSE IF games[g] = NoGame THEN "Invalid game ID"
    ELSE IF games[g].state # "running" THEN "Invalid game state"
    ELSE ""

StopFind(r, rec) ==
    LET g == rec.gameId
        msg == StopCheck(rec.token, g)
    IN IF msg # "" THEN Throw(r, rec, msg)
       ELSE Continue(r, [rec EXCEPT !.pc = "t_update", !.game = games[g]])

stopGame ==
    \E tok \in Tokens, g \in GameIds :
        /\ Begin
        /\ g < nextId
        /\ StopFind(Idle, [Idle EXCEPT !.op = "stopGame", !.token = tok, !.gameId = g])
        /\ UNCHANGED <<games, players, timers, nextId, issued>>

\* The schedule fires: EventBridge invokes the game function with the stored
\* event, whose source header routes it to stopGame(token, id, true); the
\* schedule is deleted after completion (ActionAfterCompletion: DELETE).
scheduleFires ==
    \E t \in timers :
        /\ BagCardinality(req) < MaxReqs
        /\ timers' = timers \ {t}
        /\ StopFind(Idle, [Idle EXCEPT !.op = "stopGame", !.token = t.cred, !.gameId = t.name,
                                    !.fromSchedule = TRUE])
        /\ UNCHANGED <<games, players, nextId, issued, nops>>

\* Variant: the schedule is cancelled whoever called
CancelsSchedule_always(fromSchedule) == TRUE

\* if(!fromSchedule): whether stopGame goes on to delete the schedule
CancelsSchedule(fromSchedule) == ~fromSchedule

\* Date.now(), updateOne and the modifiedCount assertion
stopGame_update ==
    \E r \in BagToSet(req) :
        /\ r.pc = "t_update"
        /\ \E currentTime \in Times :
            LET rec == [r EXCEPT !.now = currentTime]
                g == rec.gameId
                doc == IF Exists(g) THEN StopUpdate(games[g], currentTime) ELSE NoGame
                ret == [rec EXCEPT !.ret = [kind |-> "times",
                                            startTime |-> rec.game.settings.startTime,
                                            endTime |-> currentTime]]
            IN IF ModifiedCount(g, doc) # 1
               THEN Throw(r, rec, "Failed to end game") /\ UNCHANGED games
               ELSE /\ games' = [games EXCEPT ![g] = doc]
                    /\ IF CancelsSchedule(rec.fromSchedule)
                       THEN Continue(r, [ret EXCEPT !.pc = "t_cancel"])
                       ELSE Return(r, ret)
        /\ UNCHANGED <<players, timers, nextId, issued, nops>>

\* Variant: the catch block rethrows what is not ResourceNotFoundException
stopGame_cancel_rethrows ==
    \E r \in BagToSet(req) :
        /\ r.pc = "t_cancel"
        /\ LET g == r.gameId
           IN \/ HasSchedule(g) /\ timers' = { t \in timers : t.name # g } /\ Return(r, r)
              \/ ~HasSchedule(g) /\ UNCHANGED timers /\ Return(r, r)
              \/ UNCHANGED timers /\ Throw(r, r, "SchedulerError")
        /\ UNCHANGED <<games, players, nextId, issued, nops>>

\* schedulerClient.send(DeleteScheduleCommand) inside try/catch: the schedule
\* is deleted, or ResourceNotFoundException or another error is logged
stopGame_cancel ==
    \E r \in BagToSet(req) :
        /\ r.pc = "t_cancel"
        /\ LET g == r.gameId
           IN \/ HasSchedule(g) /\ timers' = { t \in timers : t.name # g }
              \/ ~HasSchedule(g) /\ UNCHANGED timers
              \/ UNCHANGED timers
        /\ Return(r, r)
        /\ UNCHANGED <<games, players, nextId, issued, nops>>

\* --------------------------------------------------------------- restartGame
\* verifyToken, findOne and the state assertion; then createGame(token,
\* game.settings, game.tasks)
RestartCheck(tok, g) ==
    IF verifyToken(tok, g, Managers) # "" THEN verifyToken(tok, g, Managers)
    ELSE IF games[g] = NoGame THEN "Invalid game ID"
    ELSE IF games[g].state # "ended" THEN "Game hasn't ended, unable to restart"
    ELSE ""

restartGame ==
    \E tok \in Tokens, g \in GameIds :
        /\ Begin
        /\ g < nextId
        /\ LET rec == [Idle EXCEPT !.op = "restartGame", !.token = tok, !.gameId = g]
               msg == RestartCheck(tok, g)
           IN IF msg # "" THEN Throw(Idle, rec, msg)
              ELSE Continue(Idle, [rec EXCEPT !.pc = "c_find",
                                  !.input = [settings |-> games[g].settings,
                                             tasks |-> games[g].tasks]])
        /\ UNCHANGED <<games, players, timers, nextId, issued>>

\* ---------------------------------------------------------------- deleteGame
\* verifyToken, findOne, the state assertion and startSession
\* Variant: the state assertion is missing
DeleteCheck_noStateAssert(tok, g) ==
    IF verifyToken(tok, g, Managers) # "" THEN verifyToken(tok, g, Managers)
    ELSE IF games[g] = NoGame THEN "Invalid game ID"
    ELSE ""

DeleteCheck(tok, g) ==
    IF verifyToken(tok, g, Managers) # "" THEN verifyToken(tok, g, Managers)
    ELSE IF games[g] = NoGame THEN "Invalid game ID"
    ELSE IF games[g].state = "running" THEN "Game is still running, unable to delete"
    ELSE ""

deleteGame ==
    \E tok \in Tokens, g \in GameIds :
        /\ Begin
        /\ g < nextId
        /\ LET rec == [Idle EXCEPT !.op = "deleteGame", !.token = tok, !.gameId = g]
               msg == DeleteCheck(tok, g)
           IN IF msg # "" THEN Throw(Idle, rec, msg)
              ELSE Continue(Idle, [rec EXCEPT !.pc = "d_game", !.game = games[g],
                                           !.session = "open"])
        /\ UNCHANGED <<games, players, timers, nextId, issued>>

\* getGameColl().deleteOne({_id: gameId}) and the deletedCount assertion
deleteGame_deleteOne ==
    \E r \in BagToSet(req) :
        /\ r.pc = "d_game"
        /\ LET rec == r
               g == rec.gameId
           IN IF DeletedCount(g) = 1
              THEN games' = [games EXCEPT ![g] = NoGame] /\ Continue(r, [rec EXCEPT !.pc = "d_players"])
              ELSE UNCHANGED games /\ Throw(r, rec, "Unable to complete delete operation")
        /\ UNCHANGED <<players, timers, nextId, issued, nops>>

\* Player documents left after deleteMany({gameId: g})
DeleteMany(g) ==
    LET keep == { p \in BagToSet(players) : p.gameId # g }
    IN [p \in keep |-> players[p]]

\* getPlayerColl().deleteMany({gameId}): it deletes the documents, or the
\* store fails the call (it throws, or the write is not acknowledged)
deleteGame_deleteMany ==
    \E r \in BagToSet(req) :
        /\ r.pc = "d_players"
        /\ LET rec == r
           IN \/ /\ players' = DeleteMany(rec.gameId)
                 /\ Return(r, [rec EXCEPT !.session = "ended", !.ret = [kind |-> "game"]])
              \/ /\ UNCHANGED players
                 /\ Throw(r, rec, "Unable to complete delete operation")
        /\ UNCHANGED <<games, timers, nextId, issued, nops>>

Next ==
    \/ createGame
    \/ createGame_find
    \/ createGame_insert
    \/ joinGame
    \/ joinGame_insertPlayer
    \/ joinGame_update
    \/ leaveGame
    \/ getGame
    \/ startGame
    \/ startGame_update
    \/ startGame_schedule
    \/ stopGame
    \/ scheduleFires
    \/ stopGame_update
    \/ stopGame_cancel
    \/ restartGame
    \/ deleteGame
    \/ deleteGame_deleteOne
    \/ deleteGame_deleteMany

Spec == Init /\ [][Next]_vars

\* Every awaited store or scheduler call of a request in flight resolves, and
\* a registered schedule fires.  Nothing obliges a caller to issue a request.
Fairness ==
    /\ WF_vars(createGame_find)
    /\ WF_vars(createGame_insert)
    /\ WF_vars(joinGame_insertPlayer)
    /\ WF_vars(joinGame_update)
    /\ WF_vars(startGame_update)
    /\ WF_vars(startGame_schedule)
    /\ WF_vars(scheduleFires)
    /\ WF_vars(stopGame_update)
    /\ WF_vars(stopGame_cancel)
    /\ WF_vars(deleteGame_deleteOne)
    /\ WF_vars(deleteGame_deleteMany)

FairSpec == Spec /\ Fairness

\* ====================================================================
\* Properties
\* ====================================================================
\* The request a step issues (a step with nops' = nops + 1): the record of
\* the slot it occupies, or its outcome when it threw in that same step.
CalledRec ==
    IF \E x \in BagToSet(req') : CopiesIn(x, req') > CopiesIn(x, req)
    THEN CHOOSE x \in BagToSet(req') : CopiesIn(x, req') > CopiesIn(x, req)
    ELSE last'

\* The request r finishes (returns or throws) in this step
Finishes(r) == req' = req (-) SetToBag({r})

HasPlayerDocIn(coll, g, u) ==
    \E p \in BagToSet(coll) : p.gameId = g /\ p.username = u

InRosterIn(gm, g, u) == gm[g] # NoGame /\ u \in gm[g].players

\* The edges of the lifecycle state machine
LifecycleEdges ==
    { <<"not ready", "ready">>, <<"ready", "running">>, <<"running", "ended">> }

\* C1: the persisted state of a game changes only along
\* not ready -> ready -> running -> ended, under any interleaving of the
\* requests: every step that changes the state of a game document follows one
\* of these three edges (never backward, never skipping a state).
C1_StateFollowsEdges ==
    [][\A g \in GameIds :
          (games[g] # NoGame /\ games'[g] # NoGame /\ games'[g].state # games[g].state)
              => <<games[g].state, games'[g].state>> \in LifecycleEdges]_vars

\* C2: in every reachable state every game has at most settings.maxPlayers
\* usernames in players.
C2_RosterWithinCapacity ==
    \A g \in GameIds :
        games[g] # NoGame => Cardinality(games[g].players) <= games[g].settings.maxPlayers

InvalidStateErrors ==
    { "Invalid game state", "Game hasn't ended, unable to restart",
      "Game is still running, unable to delete" }

\* A call of a lifecycle operation by an authorised caller on an existing
\* game whose state does not allow the operation
IllegalCall(rec) ==
    /\ rec.op \in {"startGame", "stopGame", "restartGame", "deleteGame"}
    /\ verifyToken(rec.token, rec.gameId, Managers) = ""
    /\ games[rec.gameId] # NoGame
    /\ \/ rec.op = "startGame" /\ games[rec.gameId].state # "ready"
       \/ rec.op = "stopGame" /\ games[rec.gameId].state # "running"
       \/ rec.op = "restartGame" /\ games[rec.gameId].state # "ended"
       \/ rec.op = "deleteGame" /\ games[rec.gameId].state = "running"

\* C3: startGame on a game that is not ready, stopGame on a game that is not
\* running, restartGame on a game that has not ended and deleteGame on a
\* running game fail at once with an invalid-state error, and the step leaves
\* the games collection, the players collection and the schedules unchanged.
C3_IllegalTransitionRejected ==
    [][(nops' = nops + 1 /\ IllegalCall(CalledRec))
          => /\ req' = req
             /\ last'.pc = "failed"
             /\ last'.op = CalledRec.op
             /\ last'.err \in InvalidStateErrors
             /\ UNCHANGED <<games, players, timers>>]_vars

\* A deleteGame by the host was rejected because the game is running
C3_Witness ==
    /\ last.op = "deleteGame"
    /\ last.pc = "failed"
    /\ last.err = "Game is still running, unable to delete"
    /\ last.token.role = "host"
    /\ games[last.gameId] # NoGame
    /\ games[last.gameId].state = "running"

\* C4: joinGame as player is all-or-nothing: when the call finishes (returns
\* or throws), a Player document of that user for that game exists exactly
\* when the username is in the game's players roster.
C4_JoinAllOrNothing ==
    [][\A r \in BagToSet(req) :
          (Finishes(r) /\ r.op = "joinGame" /\ r.role = "player")
              => (HasPlayerDocIn(players', r.gameId, r.token.username)
                    <=> InRosterIn(games', r.gameId, r.token.username))]_vars

\* C5: deleteGame removes the game document and its Player documents as one
\* unit: when it returns, neither the game nor any Player document of the game
\* remains, and when the player-deletion step fails the game document is
\* still present.
C5_DeleteAtomic ==
    [][\A r \in BagToSet(req) :
          (Finishes(r) /\ r.op = "deleteGame" /\ r.pc \in {"d_game", "d_players"})
              => IF last'.pc = "done"
                 THEN /\ games'[r.gameId] = NoGame
                      /\ \A p \in BagToSet(players') : p.gameId # r.gameId
                 ELSE r.pc = "d_players" => games'[r.gameId] # NoGame]_vars

\* The roster update of a join brings players.length from minPlayers - 1 to
\* minPlayers while the game is not ready
CrossesThreshold(old, new, role) ==
    /\ role = "player"
    /\ old.state = "not ready"
    /\ Cardinality(old.players) = old.settings.minPlayers - 1
    /\ Cardinality(new.players) = old.settings.minPlayers

\* C6: the join whose roster update brings players.length from
\* minPlayers - 1 to minPlayers while the game is not ready sets state to
\* ready in that same update; every other join leaves the state of the game
\* as it is.
C6_ReadyOnlyAtThreshold ==
    [][\A r \in BagToSet(req) :
          (Finishes(r) /\ r.op = "joinGame" /\ r.pc = "j_update"
             /\ games[r.gameId] # NoGame)
              => /\ games'[r.gameId] # NoGame
                 /\ IF CrossesThreshold(games[r.gameId], games'[r.gameId], r.role)
                    THEN games'[r.gameId].state = "ready"
                    ELSE games'[r.gameId].state = games[r.gameId].state]_vars

\* C7: in every reachable state a username is in at most one of host, admins
\* and players of a game.
C7_MembershipExclusive ==
    \A g \in GameIds :
        games[g] # NoGame =>
            /\ games[g].host \notin games[g].players \cup games[g].admins
            /\ games[g].players \cap games[g].admins = {}

\* C8: no game document is deleted while its persisted state is running.
C8_NoDeleteWhileRunning ==
    [][\A g \in GameIds :
          (games[g] # NoGame /\ games'[g] = NoGame) => games[g].state # "running"]_vars

\* C9: the insert of createGame adds exactly one game document; its state is
\* ready exactly when the settings it was called with have minPlayers = 0,
\* and not ready otherwise; its rosters are empty and its host is the caller.
C9_CreateInsertsOneGame ==
    [][\A r \in BagToSet(req) :
          (Finishes(r) /\ r.pc = "c_insert")
              => \E g \in GameIds :
                    /\ games[g] = NoGame
                    /\ games'[g] # NoGame
                    /\ \A h \in GameIds \ {g} : games'[h] = games[h]
                    /\ games'[g].state =
                          (IF r.input.settings.minPlayers = 0 THEN "ready" ELSE "not ready")
                    /\ games'[g].players = {}
                    /\ games'[g].admins = {}
                    /\ games'[g].host = r.token.username
                    /\ last'.pc = "done"
                    /\ last'.ret.gameid = g]_vars

\* createGame returned for settings with minPlayers = 1: the new game is still
\* as it was inserted
C9_Witness ==
    /\ last.op = "createGame"
    /\ last.pc = "done"
    /\ games[last.ret.gameid] # NoGame
    /\ games[last.ret.gameid].settings.minPlayers = 1
    /\ games[last.ret.gameid].state = "not ready"
    /\ games[last.ret.gameid].host = last.token.username

\* C10: joinGame with role admin and a missing or unknown admin code fails at
\* once with the admin-credentials error, whatever the game's state and
\* rosters, and the step leaves both collections unchanged.
C10_BadAdminCodeRejected ==
    [][(nops' = nops + 1 /\ CalledRec.op = "joinGame" /\ CalledRec.role = "admin"
          /\ CalledRec.code \notin ADMIN_CODES)
          => /\ req' = req
             /\ last'.pc = "failed"
             /\ last'.op = "joinGame"
             /\ last'.err = "Invalid admin creds"
             /\ UNCHANGED <<games, players>>]_vars

\* A join as admin with a wrong code was rejected on a game that exists and
\* has room for an admin
C10_Witness ==
    /\ last.op = "joinGame"
    /\ last.role = "admin"
    /\ last.code = "wrong"
    /\ last.pc = "failed"
    /\ last.err = "Invalid admin creds"
    /\ games[last.gameId] # NoGame
    /\ games[last.gameId].admins = {}
    /\ last.token.username # games[last.gameId].host

JoinErrors ==
    { "Invalid admin creds", "User already in game",
      "Maximum player capacity reached for this game",
      "Maximum admin capacity reached for this game",
      "This game has already ended; unable to join" }

\* A joinGame call that the roster, the capacities or the state of the
\* existing game doc forbid
JoinForbidden(rec, doc) ==
    /\ rec.op = "joinGame"
    /\ doc # NoGame
    /\ \/ rec.token.username = doc.host
       \/ rec.token.username \in doc.players
       \/ rec.token.username \in doc.admins
       \/ rec.role = "player" /\ Cardinality(doc.players) = doc.settings.maxPlayers
       \/ rec.role = "admin" /\ Cardinality(doc.admins) >= MAX_ADMINS
       \/ rec.role = "player" /\ doc.state = "ended"

\* A joinGame call as admin with a valid code on an ended game, by a user who
\* is not a member, while the admin cap is not reached
AdminJoinsEnded(rec, doc) ==
    /\ rec.op = "joinGame"
    /\ rec.role = "admin"
    /\ rec.code \in ADMIN_CODES
    /\ doc # NoGame
    /\ doc.state = "ended"
    /\ rec.token.username \notin {doc.host} \cup doc.players \cup doc.admins
    /\ Cardinality(doc.admins) < MAX_ADMINS

\* C11: a joinGame call fails at once, leaving both collections unchanged,
\* when the caller is already host, admin or player of the game, when role is
\* player and players.length equals maxPlayers, when role is admin and the
\* admin cap is reached, or when role is player and the game is ended; a join
\* as admin on an ended game is not rejected because the game has ended: it
\* goes on to its roster update.
C11_JoinRejections ==
    [][(nops' = nops + 1 /\ CalledRec.op = "joinGame")
          => /\ JoinForbidden(CalledRec, games[CalledRec.gameId])
                => /\ req' = req
                   /\ last'.pc = "failed"
                   /\ last'.op = "joinGame"
                   /\ last'.err \in JoinErrors
                   /\ UNCHANGED <<games, players>>
             /\ AdminJoinsEnded(CalledRec, games[CalledRec.gameId])
                => /\ req' # req
                   /\ CalledRec.pc = "j_update"]_vars

\* The second join as player on a game with maxPlayers = 1 was rejected: the
\* roster still holds the one player, who is not the caller
C11_Witness ==
    /\ last.op = "joinGame"
    /\ last.role = "player"
    /\ last.pc = "failed"
    /\ last.err = "Maximum player capacity reached for this game"
    /\ games[last.gameId] # NoGame
    /\ games[last.gameId].settings.maxPlayers = 1
    /\ Cardinality(games[last.gameId].players) = 1
    /\ last.token.username \notin games[last.gameId].players

\* The caller of a leaveGame call is, by the role of its credential, in the
\* matching roster of the game
LeavingMember(rec, doc) ==
    /\ rec.op = "leaveGame"
    /\ verifyToken(rec.token, rec.gameId, {"player", "admin"}) = ""
    /\ doc # NoGame
    /\ \/ rec.token.role = "player" /\ rec.token.username \in doc.players
       \/ rec.token.role = "admin" /\ rec.token.username \in doc.admins

\* C12: leaveGame called with a game-scoped credential by a user who is
\* currently a player (role player) or an admin (role admin) of the game
\* returns, and afterwards the username is no longer in players, respectively
\* admins; a leaveGame that fails because nothing was removed leaves the game
\* document unchanged.
C12_LeaveRemovesMember ==
    [][(nops' = nops + 1 /\ CalledRec.op = "leaveGame")
          => /\ LeavingMember(CalledRec, games[CalledRec.gameId])
                => /\ last'.pc = "done"
                   /\ last'.op = "leaveGame"
                   /\ games'[CalledRec.gameId] # NoGame
                   /\ IF CalledRec.token.role = "player"
                      THEN CalledRec.token.username \notin games'[CalledRec.gameId].players
                      ELSE CalledRec.token.username \notin games'[CalledRec.gameId].admins
             /\ (last'.pc = "failed" /\ last'.err = "No player removed")
                => UNCHANGED games]_vars

\* Settings without the two timestamps
SansTimes(settings) == [settings EXCEPT !.startTime = 0, !.endTime = 0]

\* Tasks without their identifiers
SansIds(tasks) == [i \in 1..Len(tasks) |-> [tasks[i] EXCEPT !._id = NoOid]]

\* The insert that ends a restartGame of a game with duration 0 adds exactly
\* one game document, whose settings are those of the restarted game up to
\* the timestamps, whose rosters are empty and whose state follows minPlayers
\* as in createGame.  r.input is the settings and tasks restartGame read.
RestartInsertsCopy(r, g) ==
    /\ games[g] = NoGame
    /\ games'[g] # NoGame
    /\ \A h \in GameIds \ {g} : games'[h] = games[h]
    /\ SansTimes(games'[g].settings) = SansTimes(r.input.settings)
    /\ games'[g].players = {}
    /\ games'[g].admins = {}
    /\ games'[g].state = (IF r.input.settings.minPlayers = 0 THEN "ready" ELSE "not ready")

RestartInserts(r) ==
    /\ Finishes(r)
    /\ r.op = "restartGame"
    /\ r.pc = "c_insert"
    /\ r.input.settings.duration = 0

\* C13: restartGame on an ended game with duration 0 and tasks T inserts
\* exactly one new game whose settings (ignoring startTime/endTime) and whose
\* tasks equal those of the original game, with empty rosters and the state
\* that minPlayers determines as in createGame.
C13_RestartTasksVerbatim ==
    [][\A r \in BagToSet(req) :
          RestartInserts(r)
              => \E g \in GameIds :
                    /\ RestartInsertsCopy(r, g)
                    /\ games'[g].tasks = r.input.tasks]_vars

\* C13, amended: as above, but the tasks of the new game equal those of the
\* original only up to their identifiers: every task of the new game has an
\* identifier that differs from the one of the task it was copied from.
C13_RestartTasksReidentified ==
    [][\A r \in BagToSet(req) :
          RestartInserts(r)
              => \E g \in GameIds :
                    /\ RestartInsertsCopy(r, g)
                    /\ SansIds(games'[g].tasks) = SansIds(r.input.tasks)
                    /\ \A i \in 1..Len(r.input.tasks) :
                          games'[g].tasks[i]._id # r.input.tasks[i]._id]_vars

\* restartGame returned for an ended game with one task: the new game has
\* that task under another identifier, and the original is still there
C13_Witness ==
    /\ last.op = "restartGame"
    /\ last.pc = "done"
    /\ games[last.gameId] # NoGame
    /\ games[last.gameId].state = "ended"
    /\ games[last.gameId].settings.duration = 0
    /\ games[last.ret.gameid] # NoGame
    /\ Len(games[last.ret.gameid].tasks) = 1
    /\ SansIds(games[last.ret.gameid].tasks) = SansIds(games[last.gameId].tasks)
    /\ games[last.ret.gameid].tasks # games[last.gameId].tasks

\* The request r goes on as r2 in this step
GoesOn(r, r2) == req' = (req (-) SetToBag({r})) (+) SetToBag({r2})

\* The schedules named after game g
SchedulesOf(ts, g) == { t \in ts : t.name = g }

\* C14: a startGame that returns for a game with duration 0 has made no call
\* to the scheduler (it returns from its update step, the schedules are
\* unchanged) and returns and persists endTime = 0; a startGame that returns
\* for a game with duration > 0 has registered exactly one schedule, named
\* after the game id, and returns endTime = startTime + duration * 1000 with
\* startTime the time it took, which are the values its update persisted.
C14_StartTimesAndTimer ==
    [][\A r \in BagToSet(req) :
          r.op = "startGame" =>
            LET g == r.gameId
                duration == r.game.settings.duration
            IN /\ (Finishes(r) /\ last'.pc = "done" /\ duration = 0)
                    => /\ r.pc = "s_update"
                       /\ UNCHANGED timers
                       /\ last'.ret.startTime \in Times
                       /\ last'.ret.endTime = 0
                       /\ games'[g].state = "running"
                       /\ games'[g].settings.startTime = last'.ret.startTime
                       /\ games'[g].settings.endTime = 0
               /\ (Finishes(r) /\ last'.pc = "done" /\ duration > 0)
                    => /\ r.pc = "s_schedule"
                       /\ UNCHANGED games
                       /\ SchedulesOf(timers, g) = {}
                       /\ Cardinality(SchedulesOf(timers', g)) = 1
                       /\ \A h \in GameIds \ {g} : SchedulesOf(timers', h) = SchedulesOf(timers, h)
                       /\ last'.ret.startTime = r.now
                       /\ last'.ret.endTime = r.now + duration * 1000
               /\ \A r2 \in BagToSet(req') :
                    (r.pc = "s_update" /\ r2.pc = "s_schedule" /\ GoesOn(r, r2))
                    => /\ duration > 0
                       /\ UNCHANGED timers
                       /\ r2.now \in Times
                       /\ games'[g].state = "running"
                       /\ games'[g].settings.startTime = r2.now
                       /\ games'[g].settings.endTime = r2.now + duration * 1000]_vars

\* startGame returned for a game with duration 2: the game is running with
\* the returned times and its schedule is registered
C14_Witness ==
    /\ last.op = "startGame"
    /\ last.pc = "done"
    /\ games[last.gameId] # NoGame
    /\ games[last.gameId].state = "running"
    /\ games[last.gameId].settings.duration = 2
    /\ last.ret.endTime = last.ret.startTime + 2000
    /\ games[last.gameId].settings.startTime = last.ret.startTime
    /\ games[last.gameId].settings.endTime = last.ret.endTime
    /\ Cardinality(SchedulesOf(timers, last.gameId)) = 1

\* The request r takes a step
Steps(r) == CopiesIn(r, req') < CopiesIn(r, req)

\* C15: a stopGame invoked with fromSchedule = true never issues a
\* cancellation call to the scheduler: such a request is never at the
\* DeleteScheduleCommand step, every step it takes (whether it goes on,
\* returns or throws) leaves the schedules unchanged, and it ends with its
\* update step.
C15_NoCancelFromSchedule ==
    [][/\ \A r \in BagToSet(req) \cup BagToSet(req') :
            r.fromSchedule => (r.op = "stopGame" /\ r.pc = "t_update")
       /\ \A r \in BagToSet(req) :
            (r.fromSchedule /\ Steps(r)) => (Finishes(r) /\ UNCHANGED timers)]_vars

\* The stopGame that the schedule of a game invoked has returned: the game has
\* ended at the time the request took
C15_Witness ==
    /\ last.op = "stopGame"
    /\ last.fromSchedule
    /\ last.pc = "done"
    /\ games[last.gameId] # NoGame
    /\ games[last.gameId].state = "ended"
    /\ games[last.gameId].settings.endTime = last.ret.endTime

\* C16: a stopGame on a running game that does not come from the scheduler
\* persists state = ended and endTime = the time it took before it calls the
\* scheduler, and its cancellation step returns the value fixed by then
\* (startTime as read, endTime = that time) and leaves the games collection
\* unchanged, whether the schedule is deleted, is not found or the call fails
\* otherwise: no outcome of the cancellation fails the call or reverts the
\* state.
C16_StopIgnoresCancelOutcome ==
    [][\A r \in BagToSet(req) :
          (r.op = "stopGame" /\ ~r.fromSchedule) =>
            /\ \A r2 \in BagToSet(req') :
                 (r.pc = "t_update" /\ r2.pc = "t_cancel" /\ GoesOn(r, r2))
                 => /\ games'[r.gameId].state = "ended"
                    /\ games'[r.gameId].settings.endTime = r2.now
                    /\ r2.ret = [kind |-> "times", startTime |-> r.game.settings.startTime,
                                 endTime |-> r2.now]
            /\ (r.pc = "t_cancel" /\ Steps(r))
                 => /\ Finishes(r)
                    /\ last'.pc = "done"
                    /\ last'.op = "stopGame"
                    /\ last'.ret = r.ret
                    /\ UNCHANGED games
            /\ (r.pc = "t_update" /\ Finishes(r)) => last'.pc = "failed"]_vars

\* A stopGame by a caller has returned although the schedule of the game could
\* not be deleted: the game has ended and its schedule is still registered
C16_Witness ==
    /\ last.op = "stopGame"
    /\ ~last.fromSchedule
    /\ last.pc = "done"
    /\ games[last.gameId] # NoGame
    /\ games[last.gameId].state = "ended"
    /\ games[last.gameId].settings.endTime = last.ret.endTime
    /\ HasSchedule(last.gameId)

\* C17: in every reachable state, also those reached by interleaved
\* concurrent creations, the number of game documents does not exceed the
\* system cap.
C17_GamesWithinCap == NumGames <= MAX_GAMES

\* The roles an operation admits
AllowedRoles(op) ==
    IF op \in {"getGame", "startGame", "stopGame", "restartGame", "deleteGame"}
    THEN {"host", "admin"}
    ELSE IF op = "leaveGame" THEN {"player", "admin"}
    ELSE {"host", "admin", "player", "none"}

\* Operations that require a credential scoped to the game
ScopedOps == {"getGame", "startGame", "stopGame", "restartGame", "deleteGame", "leaveGame"}

\* The credential of the request is scoped to the game of the request, with a
\* role that the operation admits
Authorised(rec) ==
    /\ rec.token.gameId = rec.gameId
    /\ rec.token.role \in AllowedRoles(rec.op)

\* C18: a call of getGame, startGame, stopGame, restartGame, deleteGame or
\* leaveGame with a credential that is unscoped, scoped to another game or of
\* a role the operation does not admit (host/admin; for leaveGame
\* player/admin) fails in its first step with Forbidden, returns nothing and
\* leaves the collections and the schedules unchanged; so every request of
\* these operations that is in flight or has returned carries a credential
\* scoped to its game with an admitted role.
C18_ScopedCredentialRequired ==
    [][/\ (nops' = nops + 1 /\ CalledRec.op \in ScopedOps /\ ~Authorised(CalledRec))
            => /\ req' = req
               /\ last'.pc = "failed"
               /\ last'.err = "Forbidden"
               /\ last'.ret = [kind |-> "none"]
               /\ UNCHANGED <<games, players, timers>>
       /\ \A r \in BagToSet(req') : r.op \in ScopedOps => Authorised(r)
       /\ (last'.op \in ScopedOps /\ last'.pc = "done") => Authorised(last')]_vars

\* A startGame on a ready game with a player's credential for that game was
\* refused: the game is still ready
C18_Witness ==
    /\ last.op = "startGame"
    /\ last.pc = "failed"
    /\ last.err = "Forbidden"
    /\ last.token.gameId = last.gameId
    /\ last.token.role = "player"
    /\ games[last.gameId] # NoGame
    /\ games[last.gameId].state = "ready"

\* C19: every session that joinGame or deleteGame opened is ended when the
\* operation has returned to its caller, whether it returned a value or an
\* error: the request that finished last has no open session.
C19_SessionEndedOnReturn ==
    (last.op \in {"joinGame", "deleteGame"} /\ last.pc \in {"done", "failed"})
        => last.session # "open"

MissingArgErrors ==
    { "gameFunctionArn must be specified", "stopGameEvent must be specified" }

ScheduleErrors == { "ConflictException", "SchedulerError" }

\* C20: a startGame on a ready game with duration > 0 that fails after its
\* state update returns the failure and rolls nothing back.  When the
\* scheduler target or payload is missing, the step that persists state =
\* running, startTime = now and endTime = now + duration * 1000 is the one
\* that throws; otherwise that step persists the same and the call goes on to
\* the registration, and when the registration does not take place the call
\* throws in that step; either step leaves the schedules unchanged, and the
\* failing registration leaves the games collection unchanged.
C20_StartFailureKeepsRunning ==
    [][\A r \in BagToSet(req) :
          (r.op = "startGame" /\ r.game.settings.duration > 0 /\ Steps(r)) =>
            LET g == r.gameId
                duration == r.game.settings.duration
                Persisted == /\ games'[g].state = "running"
                             /\ games'[g].settings.startTime \in Times
                             /\ games'[g].settings.endTime =
                                   games'[g].settings.startTime + duration * 1000
            IN /\ (r.pc = "s_update" /\ Finishes(r) /\ games' # games)
                    => /\ last'.pc = "failed"
                       /\ last'.err \in MissingArgErrors
                       /\ Persisted
                       /\ UNCHANGED timers
               /\ (r.pc = "s_update" /\ Finishes(r) /\ last'.err \in MissingArgErrors)
                    => games' # games
               /\ (r.pc = "s_update" /\ ~Finishes(r))
                    => Persisted /\ UNCHANGED timers
               /\ (r.pc = "s_schedule" /\ UNCHANGED timers)
                    => /\ Finishes(r)
                       /\ last'.pc = "failed"
                       /\ last'.err \in ScheduleErrors
                       /\ UNCHANGED games]_vars

\* startGame has failed because the schedule could not be registered: the
\* game is running with the times the call computed and has no schedule
C20_Witness ==
    /\ last.op = "startGame"
    /\ last.pc = "failed"
    /\ last.err = "SchedulerError"
    /\ games[last.gameId] # NoGame
    /\ games[last.gameId].state = "running"
    /\ games[last.gameId].settings.duration > 0
    /\ games[last.gameId].settings.startTime = last.ret.startTime
    /\ games[last.gameId].settings.endTime = last.ret.startTime + games[last.gameId].settings.duration * 1000
    /\ ~HasSchedule(last.gameId)

\* startGame has just returned for game g, which has a duration: its schedule
\* was registered
TimedStartReturned(g) ==
    /\ last.op = "startGame"
    /\ last.pc = "done"
    /\ last.gameId = g
    /\ last.ret.endTime > 0

Ended(g) == games[g] # NoGame /\ games[g].state = "ended"

\* C21: when startGame has returned for a game with duration > 0 (its
\* schedule is registered), the game eventually reaches state ended, given
\* that schedules fire and that awaited calls resolve, whether or not a
\* stopGame by a caller interleaves.
C21_TimedGameEnds ==
    \A g \in GameIds : TimedStartReturned(g) ~> Ended(g)

\* C22: every Player document's gameId is the id of a game document that
\* exists.  The claim is for every reachable state; it is stated here for the
\* states in which no request is in flight, where it can not be excused by a
\* unit of work that is still open.
C22_PlayersReferToGames ==
    req = EmptyBag => \A p \in BagToSet(players) : Exists(p.gameId)

\* C23: for every game and username there is at most one Player document
\* with that gameId and username.
C23_OnePlayerDocPerUser ==
    \A p \in BagToSet(players) :
        /\ CopiesIn(p, players) = 1
        /\ \A q \in BagToSet(players) :
              (q.gameId = p.gameId /\ q.username = p.username) => q = p

\* C24: in every reachable state a game whose persisted state is ready has at
\* least settings.minPlayers usernames in players.
C24_ReadyHasMinPlayers ==
    \A g \in GameIds :
        (games[g] # NoGame /\ games[g].state = "ready")
            => Cardinality(games[g].players) >= games[g].settings.minPlayers

====
